---- MODULE Spec2Model ----
(***************************************************************************)
(* Home Assistant entity-registry maintenance scripts:                     *)
(*   scripts/fix_automation_registry.py    (main)                          *)
(*   scripts/ha_migrate_automation_ids.py  (execute, fix-registry)         *)
(*   scripts/ha_backup_registry.py         (backup, restore)               *)
(* One command runs at a time; each action below is one step of the        *)
(* running command, the outcome of every external call (scp, ssh, HTTP,    *)
(* the user's answer) being chosen nondeterministically.                   *)
(***************************************************************************)
EXTENDS Integers, Sequences, FiniteSets, TLC

\* ------------------------------------------------------------------ bounds
\* longest entity list of a registry handed to fix_automation_registry.main
MaxEntries == 3
\* most entries of the "migrations" mapping of a migration file
MaxMigrations == 2
\* last second of the clock that names backup files
MaxTime == 2
\* most requests sent on one WebSocket connection
MaxSends == 3
\* most messages received on one WebSocket connection
MaxRecv == 3

\* ------------------------------------------------------------------ strings
\* An entity_id is a sequence of tokens: the domain prefix, a name, and any
\* number of "_2" suffixes; each token stands for the characters it spells.
AutoA == <<"automation.", "a">>
AutoA2 == <<"automation.", "a", "_2">>
AutoA22 == <<"automation.", "a", "_2", "_2">>
LightA == <<"light.", "a">>
LightA2 == <<"light.", "a", "_2">>

EntityIds == {AutoA, AutoA2, AutoA22, LightA, LightA2}

\* entity_id.startswith("automation.")
StartsWithAutomation(id) == Len(id) >= 1 /\ id[1] = "automation."

\* entity_id.endswith("_2")
EndsWith2(id) == Len(id) >= 1 /\ id[Len(id)] = "_2"

\* entity_id[:-2]: the last two characters are the one "_2" token
StripSuffix(id) == SubSeq(id, 1, Len(id) - 1)

\* Python's None
NoneVal == "None"

UniqueIds == {"1", "2"}
AreaIds == {NoneVal, "kitchen"}

\* one record of registry["data"]["entities"]
Entries == [entity_id : EntityIds, unique_id : UniqueIds, area_id : AreaIds]

NoDupIds(es) == \A i, j \in DOMAIN es : es[i].entity_id = es[j].entity_id => i = j

\* entity lists of at most n entries; Home Assistant keeps entity_ids unique
Registries(n) ==
  UNION {{es \in [1..k -> Entries] : NoDupIds(es)} : k \in 0..n}

Range(f) == {f[x] : x \in DOMAIN f}

\* ------------------------------------------------------------------ fix
\* keys of the automations dict: the automation entity_ids of the list
AutomationIds(entities) ==
  {entities[i].entity_id : i \in {j \in DOMAIN entities :
                                    StartsWithAutomation(entities[j].entity_id)}}

\* automations[id]: the dict comprehension keeps the last entry of an id
AutomationsAt(entities, id) ==
  CHOOSE i \in DOMAIN entities :
    /\ entities[i].entity_id = id
    /\ \A j \in DOMAIN entities : entities[j].entity_id = id => j <= i

\* list(automations.items()): keys in order of first insertion
RECURSIVE AutomationKeys(_, _)
AutomationKeys(entities, i) ==
  IF i > Len(entities) THEN <<>>
  ELSE LET id == entities[i].entity_id
           first == \A j \in 1..(i - 1) : entities[j].entity_id # id
       IN (IF StartsWithAutomation(id) /\ first THEN <<id>> ELSE <<>>)
            \o AutomationKeys(entities, i + 1)

\* entities.remove(entry): drops the first element equal to the entry
RECURSIVE RemoveFirst(_, _, _)
RemoveFirst(live, objs, v) ==
  IF live = <<>> THEN <<>>
  ELSE IF objs[Head(live)] = objs[v] THEN Tail(live)
  ELSE <<Head(live)>> \o RemoveFirst(Tail(live), objs, v)

\* the entry objects are shared between the entities list and the dict: objs
\* holds them by their place in the list as loaded, live is the entities list
\* FixStep without entities.remove(entry)
FixStepMissingRemove(entities, st, id) ==
  IF EndsWith2(id) /\ StripSuffix(id) \in AutomationIds(entities)
  THEN LET v == AutomationsAt(entities, id)
           b == AutomationsAt(entities, StripSuffix(id))
       IN [objs |-> [st.objs EXCEPT ![b].unique_id = st.objs[v].unique_id],
           live |-> st.live]
  ELSE st

\* FixStep without the test "base_entity_id in automations" before the removal
FixStepRemovesOrphans(entities, st, id) ==
  IF EndsWith2(id)
  THEN LET v == AutomationsAt(entities, id)
       IN IF StripSuffix(id) \in AutomationIds(entities)
          THEN LET b == AutomationsAt(entities, StripSuffix(id))
                   objs2 == [st.objs EXCEPT ![b].unique_id = st.objs[v].unique_id]
               IN [objs |-> objs2, live |-> RemoveFirst(st.live, objs2, v)]
          ELSE [objs |-> st.objs, live |-> RemoveFirst(st.live, st.objs, v)]
  ELSE st

\* one iteration of "for entity_id, entry in list(automations.items())"
FixStep(entities, st, id) ==
  IF EndsWith2(id) /\ StripSuffix(id) \in AutomationIds(entities)
  THEN LET v == AutomationsAt(entities, id)
           b == AutomationsAt(entities, StripSuffix(id))
           objs2 == [st.objs EXCEPT ![b].unique_id = st.objs[v].unique_id]
       IN [objs |-> objs2, live |-> RemoveFirst(st.live, objs2, v)]
  ELSE st

RECURSIVE FixLoop(_, _, _)
FixLoop(entities, st, keys) ==
  IF keys = <<>> THEN st
  ELSE FixLoop(entities, FixStep(entities, st, Head(keys)), Tail(keys))

\* the entity list json.dump writes after the loop
FixRegistry(entities) ==
  LET st == FixLoop(entities,
                    [objs |-> entities, live |-> [i \in DOMAIN entities |-> i]],
                    AutomationKeys(entities, 1))
  IN [i \in DOMAIN st.live |-> st.objs[st.live[i]]]

\* ------------------------------------------------------------------ execute
\* a key of the YAML "migrations" mapping: an integer or a string scalar
MigrationKeys ==
  {[int |-> TRUE, text |-> "1"], [int |-> FALSE, text |-> "1"],
   [int |-> FALSE, text |-> "2"]}

\* a value of the mapping: a plain new id, or a dict that may hold "new_id"
MigrationValues ==
  {[dict |-> FALSE, scalar |-> "2", new_id |-> "missing"],
   [dict |-> TRUE, scalar |-> NoneVal, new_id |-> "3"],
   [dict |-> TRUE, scalar |-> NoneVal, new_id |-> "missing"]}

MigrationPairs == [old : MigrationKeys, val : MigrationValues]

\* the migrations of a migration file, in file order; YAML keys are distinct
MigrationFiles ==
  UNION {{m \in [1..k -> MigrationPairs] :
            \A i, j \in 1..k : m[i].old = m[j].old => i = j} : k \in 0..MaxMigrations}

\* str(old_id)
Str(key) == key.text

\* new_id_or_config.get("new_id") for a dict, the value itself otherwise
NewIdOf(val) ==
  IF val.dict THEN (IF val.new_id = "missing" THEN NoneVal ELSE val.new_id)
  ELSE val.scalar

\* id_mapping, built in file order: a later key replaces an equal earlier one
RECURSIVE BuildIdMapping(_, _)
BuildIdMapping(migs, m) ==
  IF migs = <<>> THEN m
  ELSE LET k == Str(Head(migs).old)
       IN BuildIdMapping(Tail(migs),
            [x \in DOMAIN m \cup {k} |->
               IF x = k THEN NewIdOf(Head(migs).val) ELSE m[x]])

EmptyMapping == [x \in {} |-> NoneVal]

\* one pass of the mapping over the list
ApplyOnce(entities, m) ==
  [i \in DOMAIN entities |->
     IF entities[i].unique_id \in DOMAIN m
     THEN [entities[i] EXCEPT !.unique_id = m[entities[i].unique_id]]
     ELSE entities[i]]

\* the mapping followed through a -> b -> c
ApplyMappingCascading(entities, m) == ApplyOnce(ApplyOnce(entities, m), m)

\* "for entry in entities": each entry is looked up once, by the id it had
ApplyMapping(entities, m) ==
  [i \in DOMAIN entities |->
     IF entities[i].unique_id \in DOMAIN m
     THEN [entities[i] EXCEPT !.unique_id = m[entities[i].unique_id]]
     ELSE entities[i]]

\* ------------------------------------------------------------------ files
\* What a file holds: "json" is a JSON object with data.entities, "json_list"
\* is valid JSON whose top level is no object, "malformed" is text that is no
\* JSON, "undecodable" is bytes the locale's text encoding cannot decode.
NoFile == [kind |-> "absent", entities |-> <<>>]
JsonFile(es) == [kind |-> "json", entities |-> es]
BadFiles ==
  {[kind |-> k, entities |-> <<>>] : k \in {"json_list", "malformed", "undecodable"}}

\* json.load(f) on a file opened in text mode
JsonLoad(file) ==
  CASE file.kind = "undecodable" -> "UnicodeDecodeError"
    [] file.kind = "malformed" -> "JSONDecodeError"
    [] OTHER -> "ok"

ParsesAsJson(file) == file.kind \in {"json", "json_list"}

SampleEntry == [entity_id |-> AutoA, unique_id |-> "1", area_id |-> "kitchen"]
SampleFiles == {JsonFile(<<>>), JsonFile(<<SampleEntry>>)} \cup BadFiles

Timestamps == 1..MaxTime

\* ------------------------------------------------------------------ prompts
Unasked == <<"unasked">>
Answers == {<<"y">>, <<"Y">>, <<>>, <<"Y", "e", "s">>}

LowerChar(c) == CASE c = "Y" -> "y" [] OTHER -> c

\* confirm.lower()
Lower(s) == [i \in DOMAIN s |-> LowerChar(s[i])]

\* an answer is taken as yes when it begins with y or Y
ConfirmedByPrefix(a) == Len(a) >= 1 /\ LowerChar(a[1]) = "y"

\* not (confirm.lower() != "y")
Confirmed(a) == Lower(a) = <<"y">>

\* ------------------------------------------------------------------ state
VARIABLES
  cmd,             \* the command of this run
  pc,              \* the running command's position
  exitStatus,      \* "running", "0", "1", or "exception" (uncaught, traceback)
  answer,          \* the answer to the first prompt
  answer2,         \* the answer to "Continue anyway?"
  backupAvailable, \* "from ha_backup_registry import backup" succeeded
  backupResult,    \* "uncalled", "path", "None", or "raised"
  stopReported,    \* "unset", "stopped" or "timeout": wait_for_ha_stop()
  ha,              \* "up" or "down"
  remote,          \* /homeassistant/.storage/core.entity_registry
  remoteTmp,       \* the uploaded file under /tmp on the host
  remoteCopy,      \* the copy of the registry made on the host
  localTmp,        \* the local temporary copy of the registry
  backups,         \* BACKUP_DIR: timestamp -> file
  made,            \* timestamps of the files backup() wrote and left
  clock,           \* datetime.now(), in seconds
  migrations,      \* the migration file
  timestamp,       \* restore's argument
  input,           \* the entity list as loaded from the fetched registry
  did,             \* what this run has done to the outside world
  connMsgId,       \* HAConnection.msg_id
  wsPc,            \* "idle", "recv" (inside send's loop), "failed" or "closed"
  reqId,           \* msg_id, the local of the send in progress
  sentMsgs,            \* the messages written to the WebSocket, in order
  received,        \* the messages read from the WebSocket, in order
  response         \* what the last completed send returned

vars == <<cmd, pc, exitStatus, answer, answer2, backupAvailable, backupResult,
          stopReported, ha, remote, remoteTmp, remoteCopy, localTmp, backups,
          made, clock, migrations, timestamp, input, did, connMsgId, wsPc,
          reqId, sentMsgs, received, response>>

\* the state of an HAConnection
wsVars == <<connMsgId, wsPc, reqId, sentMsgs, received, response>>

\* the state of the registry scripts
runVars == <<cmd, pc, exitStatus, answer, answer2, backupAvailable, backupResult,
             stopReported, ha, remote, remoteTmp, remoteCopy, localTmp, backups,
             made, clock, migrations, timestamp, input, did>>

\* no send has returned yet
NoResponse == [hasId |-> FALSE, id |-> 0, type |-> "none"]

\* HAConnection(ws=ws): msg_id = 0, nothing sent or received
WsInit ==
  /\ connMsgId = 0
  /\ wsPc = "idle"
  /\ reqId = 0
  /\ sentMsgs = <<>>
  /\ received = <<>>
  /\ response = NoResponse

Commands == {"fix-main", "fix-registry", "execute", "backup", "restore"}
Migrating == {"execute", "fix-registry"}

ExecRegistries ==
  {es \in Registries(MaxEntries - 1) :
     \A i \in DOMAIN es : es[i].entity_id \in {AutoA, LightA}}

StartPc(c) ==
  CASE c = "fix-main" -> "fix_main"
    [] c = "backup" -> "backup"
    [] c = "restore" -> "validate"
    [] OTHER -> "confirm"

Init ==
  /\ cmd \in Commands
  /\ pc = StartPc(cmd)
  /\ exitStatus = "running"
  /\ answer = Unasked
  /\ answer2 = Unasked
  /\ backupAvailable \in (IF cmd \in Migrating THEN BOOLEAN ELSE {TRUE})
  /\ backupResult = "uncalled"
  /\ stopReported = "unset"
  /\ ha \in (IF cmd \in Migrating THEN {"up", "down"} ELSE {"up"})
  /\ remote \in
       (CASE cmd = "fix-main" ->
               {JsonFile(es) : es \in Registries(MaxEntries)} \cup BadFiles
          [] cmd = "fix-registry" ->
               {JsonFile(es) : es \in Registries(MaxEntries - 1)} \cup BadFiles
          [] cmd = "execute" -> {JsonFile(es) : es \in ExecRegistries} \cup BadFiles
          [] OTHER -> SampleFiles)
  /\ remoteTmp = NoFile
  /\ remoteCopy = NoFile
  /\ localTmp = NoFile
  /\ backups \in (IF cmd = "restore"
                  THEN [Timestamps -> SampleFiles \cup {NoFile}]
                  ELSE {[t \in Timestamps |-> NoFile]})
  /\ made = {}
  /\ clock = 1
  /\ migrations \in (IF cmd = "execute" THEN MigrationFiles ELSE {<<>>})
  /\ timestamp \in (IF cmd = "restore" THEN Timestamps ELSE {1})
  /\ input = <<>>
  /\ did = {}
  /\ WsInit

\* ------------------------------------------------------------------ steps
\* return, sys.exit(n) or an uncaught exception ends the run
Ends(status) == pc' = "done" /\ exitStatus' = status

\* the step after the backup of a migrating command
AfterBackup == IF cmd = "execute" THEN "load_config" ELSE "stop"

\* input("Continue? [y/N]: ") of execute and fix-registry, and
\* input("Continue with restore? [y/N]: ") of restore
Confirm ==
  /\ pc = "confirm"
  /\ \E a \in Answers :
       /\ answer' = a
       /\ IF Confirmed(a)
          THEN /\ pc' = (IF cmd = "restore" THEN "precopy" ELSE "backup")
               /\ exitStatus' = exitStatus
          ELSE Ends(IF cmd = "restore" THEN "1" ELSE "0")
  /\ UNCHANGED <<wsVars, cmd, answer2, backupAvailable, backupResult, stopReported, ha,
                 remote, remoteTmp, remoteCopy, localTmp, backups, made, clock,
                 migrations, timestamp, input, did>>

\* backup(): scp the registry to BACKUP_DIR/entity_registry.<now>.json, then
\* verify it; fetched tells whether scp returned 0
BackupCall(fetched) ==
  IF ~fetched
  THEN [result |-> "None", backups |-> backups, made |-> made]
  ELSE LET written == [backups EXCEPT ![clock] = remote]
       IN CASE JsonLoad(remote) = "JSONDecodeError" ->
                 [result |-> "None",
                  backups |-> [backups EXCEPT ![clock] = NoFile],
                  made |-> made \ {clock}]
            [] JsonLoad(remote) = "UnicodeDecodeError" ->
                 [result |-> "raised", backups |-> written,
                  made |-> made \cup {clock}]
            [] JsonLoad(remote) = "ok" /\ remote.kind = "json_list" ->
                 [result |-> "raised", backups |-> written,
                  made |-> made \cup {clock}]
            [] OTHER ->
                 [result |-> "path", backups |-> written,
                  made |-> made \cup {clock}]

\* BackupStep without "if not backup_path: sys.exit(1)"
BackupStepIgnoresFailure ==
  /\ pc = "backup"
  /\ cmd \in Migrating
  /\ IF backupAvailable
     THEN \E fetched \in BOOLEAN :
            LET o == BackupCall(fetched)
            IN /\ backupResult' = o.result
               /\ backups' = o.backups
               /\ made' = o.made
               /\ did' = did \cup {"backup"}
               /\ IF o.result = "raised"
                  THEN Ends("exception")
                  ELSE pc' = AfterBackup /\ exitStatus' = exitStatus
     ELSE /\ pc' = AfterBackup
          /\ UNCHANGED <<exitStatus, backupResult, backups, made, did>>
  /\ UNCHANGED <<wsVars, cmd, answer, answer2, backupAvailable, stopReported, ha, remote,
                 remoteTmp, remoteCopy, localTmp, clock, migrations, timestamp,
                 input>>

\* step [1/4] of execute and fix-registry
BackupStep ==
  /\ pc = "backup"
  /\ cmd \in Migrating
  /\ IF backupAvailable
     THEN \E fetched \in BOOLEAN :
            LET o == BackupCall(fetched)
            IN /\ backupResult' = o.result
               /\ backups' = o.backups
               /\ made' = o.made
               /\ did' = did \cup {"backup"}
               /\ IF o.result = "path"
                  THEN pc' = AfterBackup /\ exitStatus' = exitStatus
                  ELSE Ends(IF o.result = "None" THEN "1" ELSE "exception")
     ELSE /\ pc' = AfterBackup
          /\ UNCHANGED <<exitStatus, backupResult, backups, made, did>>
  /\ UNCHANGED <<wsVars, cmd, answer, answer2, backupAvailable, stopReported, ha, remote,
                 remoteTmp, remoteCopy, localTmp, clock, migrations, timestamp,
                 input>>

\* the backup command: result = backup(); sys.exit(0 if result else 1)
BackupCmd ==
  /\ pc = "backup"
  /\ cmd = "backup"
  /\ \E fetched \in BOOLEAN :
       LET o == BackupCall(fetched)
       IN /\ backupResult' = o.result
          /\ backups' = o.backups
          /\ made' = o.made
          /\ did' = did \cup {"backup"}
          /\ Ends(CASE o.result = "path" -> "0"
                    [] o.result = "None" -> "1"
                    [] OTHER -> "exception")
  /\ UNCHANGED <<wsVars, cmd, answer, answer2, backupAvailable, stopReported, ha, remote,
                 remoteTmp, remoteCopy, localTmp, clock, migrations, timestamp,
                 input>>

\* the backup command is run again, later or within the same second, Home
\* Assistant having rewritten its registry in between
Again ==
  /\ pc = "done"
  /\ cmd = "backup"
  /\ pc' = "backup"
  /\ exitStatus' = "running"
  /\ backupResult' = "uncalled"
  /\ did' = {}
  /\ clock' \in {clock, clock + 1} \cap Timestamps
  /\ remote' \in SampleFiles
  /\ UNCHANGED <<wsVars, cmd, answer, answer2, backupAvailable, stopReported, ha,
                 remoteTmp, remoteCopy, localTmp, backups, made, migrations,
                 timestamp, input>>

\* execute: load the migration file; no migrations is an error
LoadConfig ==
  /\ pc = "load_config"
  /\ IF migrations = <<>>
     THEN Ends("1")
     ELSE pc' = "stop" /\ exitStatus' = exitStatus
  /\ UNCHANGED <<wsVars, cmd, answer, answer2, backupAvailable, backupResult,
                 stopReported, ha, remote, remoteTmp, remoteCopy, localTmp,
                 backups, made, clock, migrations, timestamp, input, did>>

\* stop_ha(): "no_token" returns False before any request; "ok" is a request
\* Home Assistant answered; "refused" is a URLError with "Connection refused"
\* (True); "error" is any other URLError (False). did records "stop_request"
\* once the request is made and "stop" once stop_ha() returned True
StopOutcomes == {"no_token", "ok", "refused", "error"}

StopHa ==
  /\ pc = "stop"
  /\ \E o \in StopOutcomes :
       /\ o = "ok" => ha = "up"
       /\ o = "refused" => ha = "down"
       /\ did' = did \cup (CASE o = "no_token" -> {}
                              [] o = "error" -> {"stop_request"}
                              [] OTHER -> {"stop_request", "stop"})
       /\ IF o \in {"ok", "refused"}
          THEN pc' = "wait" /\ exitStatus' = exitStatus
          ELSE Ends("1")
  /\ UNCHANGED <<wsVars, cmd, answer, answer2, backupAvailable, backupResult,
                 stopReported, ha, remote, remoteTmp, remoteCopy, localTmp,
                 backups, made, clock, migrations, timestamp, input>>

\* wait_for_ha_stop(), and what each command does with a timeout
WaitForStop ==
  /\ pc = "wait"
  /\ \E r \in {"stopped", "timeout"} :
       /\ r = "timeout" => ha = "up"
       /\ stopReported' = r
       /\ ha' = (IF r = "stopped" THEN "down" ELSE ha)
       /\ pc' = (IF r = "timeout" /\ cmd = "execute"
                 THEN "continue_prompt" ELSE "fetch")
  /\ UNCHANGED <<wsVars, cmd, exitStatus, answer, answer2, backupAvailable, backupResult,
                 remote, remoteTmp, remoteCopy, localTmp, backups, made, clock,
                 migrations, timestamp, input, did>>

\* execute: input("Continue anyway? [y/N]: ")
ContinueAnyway ==
  /\ pc = "continue_prompt"
  /\ \E a \in Answers :
       /\ answer2' = a
       /\ IF Confirmed(a)
          THEN pc' = "fetch" /\ exitStatus' = exitStatus
          ELSE Ends("1")
  /\ UNCHANGED <<wsVars, cmd, answer, backupAvailable, backupResult, stopReported, ha,
                 remote, remoteTmp, remoteCopy, localTmp, backups, made, clock,
                 migrations, timestamp, input, did>>

\* what the command makes of the loaded entity list
Transform(entities) ==
  IF cmd = "execute"
  THEN ApplyMapping(entities, BuildIdMapping(migrations, EmptyMapping))
  ELSE FixRegistry(entities)

\* step [3/4]: scp_get, json.load, the update, json.dump to the local file
Fetch ==
  /\ pc = "fetch"
  /\ \E fetched \in BOOLEAN :
       IF ~fetched
       THEN Ends("1") /\ UNCHANGED <<localTmp, input, did>>
       ELSE /\ did' = did \cup {"fetch"}
            /\ IF remote.kind = "json"
               THEN /\ input' = remote.entities
                    /\ localTmp' = JsonFile(Transform(remote.entities))
                    /\ pc' = "upload"
                    /\ exitStatus' = exitStatus
               ELSE /\ localTmp' = remote
                    /\ input' = input
                    /\ Ends("exception")
  /\ UNCHANGED <<wsVars, cmd, answer, answer2, backupAvailable, backupResult,
                 stopReported, ha, remote, remoteTmp, remoteCopy, backups, made,
                 clock, migrations, timestamp>>

\* scp_put of the updated registry, or restore's scp of the backup file
Upload ==
  /\ pc = "upload"
  /\ \E sent \in BOOLEAN :
       IF sent
       THEN /\ remoteTmp' = (IF cmd = "restore" THEN backups[timestamp] ELSE localTmp)
            /\ did' = did \cup {"upload"}
            /\ pc' = "move"
            /\ exitStatus' = exitStatus
       ELSE Ends("1") /\ UNCHANGED <<remoteTmp, did>>
  /\ UNCHANGED <<wsVars, cmd, answer, answer2, backupAvailable, backupResult,
                 stopReported, ha, remote, remoteCopy, localTmp, backups, made,
                 clock, migrations, timestamp, input>>

\* ssh "sudo mv /tmp/... core.entity_registry"
Move ==
  /\ pc = "move"
  /\ \E moved \in BOOLEAN :
       IF moved
       THEN /\ remote' = remoteTmp
            /\ remoteTmp' = NoFile
            /\ did' = did \cup {"ssh", "replace"}
            /\ IF cmd = "restore"
               THEN Ends("0")
               ELSE pc' = "reboot" /\ exitStatus' = exitStatus
       ELSE /\ did' = did \cup {"ssh"}
            /\ Ends("1")
            /\ UNCHANGED <<remote, remoteTmp>>
  /\ UNCHANGED <<wsVars, cmd, answer, answer2, backupAvailable, backupResult,
                 stopReported, ha, remoteCopy, localTmp, backups, made, clock,
                 migrations, timestamp, input>>

\* step [4/4]: reboot_ha()
Reboot ==
  /\ pc = "reboot"
  /\ did' = did \cup {"ssh", "reboot"}
  /\ ha' = "up"
  /\ Ends("0")
  /\ UNCHANGED <<wsVars, cmd, answer, answer2, backupAvailable, backupResult,
                 stopReported, remote, remoteTmp, remoteCopy, localTmp, backups,
                 made, clock, migrations, timestamp, input>>

\* restore(timestamp), up to the prompt: the file must exist and load
Validate ==
  /\ pc = "validate"
  /\ LET file == backups[timestamp]
     IN CASE file = NoFile -> Ends("1")
          [] file # NoFile /\ JsonLoad(file) = "JSONDecodeError" -> Ends("1")
          [] file # NoFile /\ JsonLoad(file) = "UnicodeDecodeError" ->
               Ends("exception")
          [] file # NoFile /\ file.kind = "json_list" -> Ends("exception")
          [] OTHER -> pc' = "confirm" /\ exitStatus' = exitStatus
  /\ UNCHANGED <<wsVars, cmd, answer, answer2, backupAvailable, backupResult,
                 stopReported, ha, remote, remoteTmp, remoteCopy, localTmp,
                 backups, made, clock, migrations, timestamp, input, did>>

\* restore without the pre-restore copy
PreCopySkipped ==
  /\ pc = "precopy"
  /\ pc' = "upload"
  /\ UNCHANGED <<wsVars, cmd, exitStatus, answer, answer2, backupAvailable, backupResult,
                 stopReported, ha, remote, remoteTmp, remoteCopy, localTmp,
                 backups, made, clock, migrations, timestamp, input, did>>

\* restore: ssh "sudo cp <registry> <registry>.pre_restore.<timestamp>"; a
\* failure is a warning
PreCopy ==
  /\ pc = "precopy"
  /\ \E copied \in BOOLEAN :
       /\ remoteCopy' = (IF copied THEN remote ELSE remoteCopy)
       /\ did' = did \cup (IF copied THEN {"ssh", "precopy", "precopy_ok"}
                           ELSE {"ssh", "precopy"})
  /\ pc' = "upload"
  /\ UNCHANGED <<wsVars, cmd, exitStatus, answer, answer2, backupAvailable, backupResult,
                 stopReported, ha, remote, remoteTmp, localTmp, backups, made,
                 clock, migrations, timestamp, input>>

\* fix_automation_registry.main, run on the host: copy, load, fix, save
FixMain ==
  /\ pc = "fix_main"
  /\ remoteCopy' = remote
  /\ IF remote.kind = "json"
     THEN /\ input' = remote.entities
          /\ remote' = JsonFile(FixRegistry(remote.entities))
          /\ did' = did \cup {"replace"}
          /\ Ends("0")
     ELSE /\ UNCHANGED <<input, remote, did>>
          /\ Ends("exception")
  /\ UNCHANGED <<wsVars, cmd, answer, answer2, backupAvailable, backupResult,
                 stopReported, ha, remoteTmp, localTmp, backups, made, clock,
                 migrations, timestamp>>

Next ==
  \/ Confirm
  \/ BackupStep
  \/ BackupCmd
  \/ Again
  \/ LoadConfig
  \/ StopHa
  \/ WaitForStop
  \/ ContinueAnyway
  \/ Fetch
  \/ Upload
  \/ Move
  \/ Reboot
  \/ Validate
  \/ PreCopy
  \/ FixMain

Spec == Init /\ [][Next]_vars

\* ------------------------------------------------------------------ HAConnection
\* what the callers of send pass: a message type and keyword arguments
NoKwargs == [k \in {} |-> ""]
Requests ==
  {[type |-> "config/entity_registry/list", kwargs |-> NoKwargs],
   [type |-> "config/entity_registry/update",
    kwargs |-> [k \in {"entity_id"} |-> "automation.a"]],
   [type |-> "config/label_registry/delete",
    kwargs |-> [k \in {"label_id"} |-> "climate"]]}

\* what the server may write to the socket: a message with or without an
\* "id", of type "result" or "event"
ServerMessages ==
  {m \in [hasId : BOOLEAN, id : 0..(MaxSends + 1), type : {"result", "event"}] :
     ~m.hasId => m.id = 0}

\* next_id without the increment
NextIdStuck(n) == n

\* next_id: self.msg_id += 1
NextId(n) == n + 1

\* {"id": msg_id, "type": msg_type, **kwargs}: a keyword replaces an equal key
BuildMessage(msg_id, msg_type, kwargs) ==
  [id |-> IF "id" \in DOMAIN kwargs THEN kwargs["id"] ELSE msg_id,
   type |-> IF "type" \in DOMAIN kwargs THEN kwargs["type"] ELSE msg_type,
   args |-> [k \in DOMAIN kwargs \ {"id", "type"} |-> kwargs[k]]]

\* the first message that is no event is taken for the response
IdMatchesOrNotEvent(m, msg_id) == (m.hasId /\ m.id = msg_id) \/ m.type # "event"

\* response.get("id") == msg_id
IdMatches(m, msg_id) == m.hasId /\ m.id = msg_id

\* send, up to "await self.ws.send(json.dumps(msg))"
SendRequest ==
  /\ wsPc = "idle"
  /\ connMsgId < MaxSends
  /\ \E r \in Requests :
       LET id == NextId(connMsgId)
       IN /\ connMsgId' = id
          /\ reqId' = id
          /\ sentMsgs' = Append(sentMsgs, BuildMessage(id, r.type, r.kwargs))
  /\ wsPc' = "recv"
  /\ response' = NoResponse
  /\ UNCHANGED <<runVars, received>>

\* one turn of send's "while True": the message read is returned when its id
\* is msg_id, and dropped otherwise, an event or not
Receive ==
  /\ wsPc = "recv"
  /\ Len(received) < MaxRecv
  /\ \E m \in ServerMessages :
       /\ received' = Append(received, [msg |-> m, nsent |-> Len(sentMsgs),
                                        returned |-> IdMatches(m, reqId)])
       /\ IF IdMatches(m, reqId)
          THEN response' = m /\ wsPc' = "idle"
          ELSE UNCHANGED <<response, wsPc>>
  /\ UNCHANGED <<runVars, connMsgId, reqId, sentMsgs>>

\* ws.recv() raises (the connection closed): send raises and returns nothing
ConnectionLost ==
  /\ wsPc = "recv"
  /\ wsPc' = "failed"
  /\ UNCHANGED <<runVars, connMsgId, reqId, sentMsgs, received, response>>

\* the command's "finally: await conn.ws.close()"
Close ==
  /\ wsPc \in {"idle", "failed"}
  /\ wsPc' = "closed"
  /\ UNCHANGED <<runVars, connMsgId, reqId, sentMsgs, received, response>>

\* a command of ha_entity_metadata.py on a fresh connection
InitWs ==
  /\ cmd = "metadata"
  /\ pc = "done"
  /\ exitStatus = "running"
  /\ answer = Unasked
  /\ answer2 = Unasked
  /\ backupAvailable = TRUE
  /\ backupResult = "uncalled"
  /\ stopReported = "unset"
  /\ ha = "up"
  /\ remote = JsonFile(<<>>)
  /\ remoteTmp = NoFile
  /\ remoteCopy = NoFile
  /\ localTmp = NoFile
  /\ backups = [t \in Timestamps |-> NoFile]
  /\ made = {}
  /\ clock = 1
  /\ migrations = <<>>
  /\ timestamp = 1
  /\ input = <<>>
  /\ did = {}
  /\ WsInit

NextWs ==
  \/ SendRequest
  \/ Receive
  \/ ConnectionLost
  \/ Close

SpecWs == InitWs /\ [][NextWs]_vars

\* ------------------------------------------------------------------ claims
YesAnswers == {<<"y">>, <<"Y">>}

\* the registry fix has written its result to the registry file
FixWritten == cmd \in {"fix-main", "fix-registry"} /\ "replace" \in did

\* the registry file as written
Written == remote.entities

IsAutomationId(id) == id[1] = "automation."
HasId(es, id) == \E j \in DOMAIN es : es[j].entity_id = id
IsAutomationOf(es, id) == IsAutomationId(id) /\ HasId(es, id)

\* the places of the automation entries E_2 of es whose E is an automation of es
Duplicates(es) ==
  {i \in DOMAIN es :
     /\ IsAutomationId(es[i].entity_id)
     /\ Len(es[i].entity_id) > 1
     /\ es[i].entity_id[Len(es[i].entity_id)] = "_2"
     /\ IsAutomationOf(es, SubSeq(es[i].entity_id, 1, Len(es[i].entity_id) - 1))}

BaseOf(e) == SubSeq(e.entity_id, 1, Len(e.entity_id) - 1)

\* C1 as stated: for every automation entry E_2 whose E is an automation entry
\* of the same input, the written registry holds E with the unique_id E_2 had
\* in the input, and holds no entry E_2.
C1_AsStated ==
  FixWritten =>
    \A i \in Duplicates(input) :
      /\ \E j \in DOMAIN Written :
           /\ Written[j].entity_id = BaseOf(input[i])
           /\ Written[j].unique_id = input[i].unique_id
      /\ ~HasId(Written, input[i].entity_id)

\* C1 amended: the written registry holds no entry E_2; and when E is not
\* itself the _2 duplicate of an automation entry and no automation entry
\* E_2_2 precedes E_2 in the list, it holds E with the unique_id E_2 had in
\* the input.
C1_FixMergesDuplicates ==
  FixWritten =>
    \A i \in Duplicates(input) :
      /\ ~HasId(Written, input[i].entity_id)
      /\ ( /\ \A k \in Duplicates(input) :
                input[k].entity_id # BaseOf(input[i])
           /\ \A k \in 1..(i - 1) :
                input[k].entity_id # input[i].entity_id \o <<"_2">> )
         => \E j \in DOMAIN Written :
              /\ Written[j].entity_id = BaseOf(input[i])
              /\ Written[j].unique_id = input[i].unique_id

\* a fix-registry run, through to the replaced registry, merged a duplicate
\* whose unique_id differs from its original's
C1_Witness ==
  /\ cmd = "fix-registry"
  /\ "replace" \in did
  /\ \E i \in Duplicates(input) :
       \E k \in DOMAIN input :
         /\ input[k].entity_id = BaseOf(input[i])
         /\ input[k].unique_id # input[i].unique_id
         /\ \E j \in DOMAIN Written :
              /\ Written[j].entity_id = input[k].entity_id
              /\ Written[j].unique_id = input[i].unique_id

\* the places of es that are no duplicates, in order
Survivors(es) ==
  SelectSeq([i \in DOMAIN es |-> i], LAMBDA i : i \notin Duplicates(es))

\* C2: the written registry is the input registry without its _2 automation
\* duplicates, in the same order; every surviving entry is unchanged, but for
\* the unique_id of an automation entry that has a _2 counterpart; entries
\* that are no automations are neither altered nor removed.
C2_FixPreservesMetadata ==
  FixWritten =>
    LET keep == Survivors(input)
    IN /\ Len(Written) = Len(keep)
       /\ \A k \in DOMAIN keep :
            LET old == input[keep[k]]
                new == Written[k]
            IN /\ new.entity_id = old.entity_id
               /\ new.area_id = old.area_id
               /\ new.unique_id # old.unique_id =>
                    IsAutomationOf(input, old.entity_id \o <<"_2">>)
                      /\ IsAutomationId(old.entity_id)
       /\ \A i \in DOMAIN input :
            ~IsAutomationId(input[i].entity_id) =>
              \E k \in DOMAIN Written : Written[k] = input[i]

\* a fix merged a duplicate into an original that has an area, beside a
\* non-automation entry whose entity_id ends in _2
C2_Witness ==
  /\ FixWritten
  /\ Duplicates(input) # {}
  /\ \E i \in DOMAIN input : input[i].entity_id = LightA2
  /\ \E k \in DOMAIN Written :
       /\ Written[k].entity_id = AutoA
       /\ Written[k].area_id = "kitchen"
       /\ \E i \in DOMAIN input :
            input[i].entity_id = AutoA /\ input[i].unique_id # Written[k].unique_id

\* execute has replaced the remote registry
ExecuteWritten == cmd = "execute" /\ "replace" \in did

\* the new id the migration file gives for the old id u: that of the last
\* entry whose key reads u
MigratedId(u) ==
  LET hits == {k \in DOMAIN migrations : migrations[k].old.text = u}
  IN IF hits = {} THEN u
     ELSE NewIdOf(migrations[CHOOSE k \in hits : \A h \in hits : h <= k].val)

\* C3: execute writes the input registry with only unique_ids changed: every
\* entry keeps its place and its other fields, and its unique_id is the new id
\* the migration file maps its original unique_id to (applied once), or its
\* original unique_id when the file does not name it.
C3_ExecuteChangesOnlyUniqueIds ==
  ExecuteWritten =>
    /\ Len(Written) = Len(input)
    /\ \A i \in DOMAIN input :
         Written[i] = [input[i] EXCEPT !.unique_id = MigratedId(input[i].unique_id)]

\* execute renamed an entry to an id that is itself an old id of the file
C3_Witness ==
  /\ ExecuteWritten
  /\ \E i \in DOMAIN input :
       /\ Written[i].unique_id # input[i].unique_id
       /\ \E k \in DOMAIN migrations :
            /\ migrations[k].old.text = Written[i].unique_id
            /\ NewIdOf(migrations[k].val) # Written[i].unique_id

\* C4: in execute and fix-registry with the backup module imported, the stop
\* request and the replacement of the remote registry come only after
\* backup() returned a path in this run; when backup() returned None the run
\* has exited with status 1 without a stop request, a fetch, an upload or a
\* remote command.
C4_BackupFirst ==
  (cmd \in Migrating /\ backupAvailable) =>
    /\ (did \cap {"stop_request", "replace"} # {}) => backupResult = "path"
    /\ backupResult = "None" =>
         /\ pc = "done"
         /\ exitStatus = "1"
         /\ did = {"backup"}
         /\ remoteTmp = NoFile
         /\ stopReported = "unset"

\* a run with the backup module replaced the registry after a backup
C4_Witness ==
  /\ cmd \in Migrating
  /\ backupAvailable
  /\ backupResult = "path"
  /\ {"stop_request", "replace"} \subseteq did

\* C5: in execute and fix-registry the remote registry is replaced only if
\* wait_for_ha_stop reported that Home Assistant stopped, or the user answered
\* yes to "Continue anyway?".
C5_ReplacedOnlyWhenStopped ==
  (cmd \in Migrating /\ "replace" \in did) =>
    (stopReported = "stopped" \/ answer2 \in YesAnswers)

\* C6: in execute and fix-registry, every run whose stop request went through
\* (stop_ha returned True) ends with reboot_ha called.
C6_RebootAfterStop ==
  (cmd \in Migrating /\ pc = "done" /\ "stop" \in did) => "reboot" \in did

\* the first prompt was answered with something other than y or Y
Declined == answer # Unasked /\ answer \notin YesAnswers

\* C7: in execute, fix-registry and restore, once the confirmation prompt is
\* answered with anything but y or Y the run has ended, having taken no
\* backup, sent no stop request, uploaded no file and run no remote command,
\* and nothing changes afterwards.
C7_DeclineHasNoEffect ==
  /\ [](Declined =>
          /\ pc = "done"
          /\ did = {}
          /\ backupResult = "uncalled"
          /\ stopReported = "unset"
          /\ made = {}
          /\ remoteTmp = NoFile
          /\ remoteCopy = NoFile)
  /\ [][Declined' =>
          UNCHANGED <<remote, remoteTmp, remoteCopy, backups, ha>>]_vars

\* a restore was declined with an answer that begins with a y
C7_Witness ==
  /\ cmd = "restore"
  /\ answer = <<"Y", "e", "s">>
  /\ pc = "done"

\* C8: backup() returns a path only when the fetched file parses as JSON;
\* when the content is not valid JSON it returns None; and every file that
\* backup() left in the backup directory parses as JSON.
C8_BackupsAreJson ==
  /\ (backupResult = "path" /\ cmd = "backup") => ParsesAsJson(backups[clock])
  /\ (cmd = "backup" /\ pc = "done" /\ "backup" \in did
        /\ ~ParsesAsJson(remote)) => backupResult = "None"
  /\ \A t \in made : backups[t] # NoFile => ParsesAsJson(backups[t])

\* C9: when no backup file exists for the timestamp, or the file does not
\* parse as JSON, restore returns False without a prompt, without any ssh or
\* scp command and without changing the remote registry.
C9_RestoreRefusesBadInput ==
  (cmd = "restore" /\ pc # "validate"
     /\ (backups[timestamp] = NoFile \/ ~ParsesAsJson(backups[timestamp]))) =>
    /\ pc = "done"
    /\ exitStatus = "1"
    /\ answer = Unasked
    /\ did = {}
    /\ remoteTmp = NoFile

\* C10 as stated: restore replaces the remote registry only after the
\* pre-restore copy was created successfully in the same run.
C10_AsStated ==
  (cmd = "restore" /\ "replace" \in did) => "precopy_ok" \in did

\* C10 amended: restore replaces the remote registry only after it ran the
\* command that makes the pre-restore copy in the same run, whether or not
\* that command succeeded.
C10_CopyAttemptedBeforeOverwrite ==
  (cmd = "restore" /\ "replace" \in did) => "precopy" \in did

\* a restore replaced the registry although the pre-restore copy failed
C10_Witness ==
  /\ cmd = "restore"
  /\ "replace" \in did
  /\ "precopy" \in did
  /\ "precopy_ok" \notin did
  /\ remoteCopy = NoFile

\* C11: the ids of the messages sent on a connection are 1, 2, 3, ...; send
\* returns a received message exactly when its id is the id of the request
\* just sent; every other message received meanwhile, an event or a message
\* with another id or none, is dropped and is not what send returns.
C11_SendReturnsMatchingResponse ==
  /\ \A i \in DOMAIN sentMsgs : sentMsgs[i].id = i
  /\ connMsgId = Len(sentMsgs)
  /\ \A k \in DOMAIN received :
       LET e == received[k]
       IN /\ e.nsent \in DOMAIN sentMsgs
          /\ e.returned <=> (e.msg.hasId /\ e.msg.id = sentMsgs[e.nsent].id)
          /\ e.returned => \A j \in DOMAIN received : j > k => received[j].nsent > e.nsent
  /\ response # NoResponse =>
       /\ wsPc \in {"idle", "closed"}
       /\ response.hasId
       /\ response.id = sentMsgs[Len(sentMsgs)].id
       /\ received[Len(received)] =
            [msg |-> response, nsent |-> Len(sentMsgs), returned |-> TRUE]
  /\ wsPc = "recv" =>
       \A k \in DOMAIN received :
         received[k].nsent = Len(sentMsgs) => ~received[k].returned

\* the second send returned its response after an event and a result that
\* carry the first request's id were dropped
C11_Witness ==
  /\ Len(sentMsgs) = 2
  /\ wsPc = "idle"
  /\ response.hasId /\ response.id = 2
  /\ \E k \in DOMAIN received :
       /\ received[k].nsent = 2
       /\ ~received[k].returned
       /\ received[k].msg = [hasId |-> TRUE, id |-> 1, type |-> "event"]

====
